---- MODULE Spec2Model ----
(***************************************************************************)
(* A model of the Email Drip Campaign API (src/main.py): the process       *)
(* start-up check, the request validation done by the schema classes, the  *)
(* campaign generation loop with its calls to the generative-text service, *)
(* the parsing of a completion into an EmailVariant, the request boundary  *)
(* that turns every failure into an HTTP error, and the CSV export.        *)
(*                                                                         *)
(* Texts are sequences of pieces.  A piece is a single character wherever  *)
(* the code looks at characters (lengths, lower-casing), the newline "\n"  *)
(* is always a piece of its own, and an opaque run of characters that the  *)
(* code only copies is one piece.                                          *)
(***************************************************************************)
EXTENDS Integers, Sequences, FiniteSets, TLC

VARIABLES
    env_key,    \* os.environ["COHERE_API_KEY"]: NoValue when unset
    proc,       \* the process: "starting", "serving" or "failed"
    endpoint,   \* the route of the request being handled
    body,       \* the JSON body of the request, as sent by the caller
    request,    \* the validated CampaignRequest object (contact groups mutable)
    pc,         \* position of the request handler
    ai,         \* generate_campaigns: 1-based index of the account in the comprehension
    si,         \* generate_campaign: i + 1 of the loop over range(number_of_emails)
    emails,     \* generate_campaign: the local list emails
    campaigns,  \* generate_campaigns: the list built by the comprehension
    calls,      \* history: the client.generate calls issued for this request
    returns,    \* history: what each finished client.generate call gave back
    out,        \* export_campaigns_csv: the rows written to the StringIO
    resp        \* the HTTP response given to the caller

vars == <<env_key, proc, endpoint, body, request, pc, ai, si, emails, campaigns,
          calls, returns, out, resp>>

-----------------------------------------------------------------------------
(* Bounds of the model *)

MaxAccounts == 2      \* accounts in the generated requests
MaxStages == 2        \* number_of_emails in the generated requests
MaxCampaigns == 3     \* campaigns of a CampaignResponse given to the CSV formatter
MaxEmails == 3        \* emails per campaign given to the CSV formatter
MaxVariants == 3      \* variants per email given to the CSV formatter

(* Constants of the program *)

NameMaxLength == 100          \* Contact.name, Contact.job_title
AccountNameMaxLength == 200   \* Account.account_name
IndustryMaxLength == 100      \* Account.industry
PainPointsMaxItems == 5       \* Account.pain_points
InterestMaxLength == 100      \* Account.interest
LanguageMaxLength == 200      \* Account.language
AccountsMaxItems == 10        \* CampaignRequest.accounts
NumberOfEmailsLe == 10        \* CampaignRequest.number_of_emails

-----------------------------------------------------------------------------
(* Helpers on sequences *)

Range(s) == {s[i] : i \in 1..Len(s)}

Last(s) == s[Len(s)]

RECURSIVE Concat(_)
Concat(ss) == IF ss = <<>> THEN <<>> ELSE Head(ss) \o Concat(Tail(ss))

\* str.join: the items with sep between neighbours
RECURSIVE Join(_, _)
Join(sep, items) ==
    IF items = <<>> THEN <<>>
    ELSE IF Len(items) = 1 THEN <<items[1]>>
    ELSE <<items[1], sep>> \o Join(sep, Tail(items))

\* str(n) of the small integers the program formats
StrOfInt(n) ==
    IF n \in 0..12
    THEN <<"0", "1", "2", "3", "4", "5", "6", "7", "8", "9", "10", "11", "12">>[n + 1]
    ELSE "int"

StrOfStatus(s) ==
    CASE s = 400 -> "400"
      [] s = 422 -> "422"
      [] s = 500 -> "500"
      [] OTHER -> "200"

-----------------------------------------------------------------------------
(* str.lower() and str.replace("\n", "") *)

UpperCase == <<"A", "B", "C", "D", "E", "F", "G", "H", "I", "J", "K", "L", "M",
               "N", "O", "P", "Q", "R", "S", "T", "U", "V", "W", "X", "Y", "Z">>

LowerCase == <<"a", "b", "c", "d", "e", "f", "g", "h", "i", "j", "k", "l", "m",
               "n", "o", "p", "q", "r", "s", "t", "u", "v", "w", "x", "y", "z">>

LowerChar(ch) ==
    IF \E k \in 1..Len(UpperCase) : UpperCase[k] = ch
    THEN LowerCase[CHOOSE k \in 1..Len(UpperCase) : UpperCase[k] = ch]
    ELSE ch

Lower(text) == [k \in 1..Len(text) |-> LowerChar(text[k])]

NotNewline(piece) == piece # "\n"

StripNewlines(text) == SelectSeq(text, NotNewline)

-----------------------------------------------------------------------------
(* The schema classes: Contact, Account, CampaignRequest *)

Groups == {"A", "B"}

Objectives == {"awareness", "nurturing", "upselling"}

Tones == {"formal", "casual", "enthusiastic", "neutral"}

ValidContact(c) ==
    /\ Len(c.name) >= 1 /\ Len(c.name) <= NameMaxLength
    /\ Len(c.job_title) >= 1 /\ Len(c.job_title) <= NameMaxLength
    /\ c.group \in Groups

ValidAccount(a) ==
    /\ Len(a.account_name) >= 1 /\ Len(a.account_name) <= AccountNameMaxLength
    /\ Len(a.industry) >= 1 /\ Len(a.industry) <= IndustryMaxLength
    /\ Len(a.pain_points) >= 1 /\ Len(a.pain_points) <= PainPointsMaxItems
    /\ Len(a.contacts) >= 1
    /\ \A k \in 1..Len(a.contacts) : ValidContact(a.contacts[k])
    /\ a.campaign_objective \in Objectives
    /\ Len(a.interest) >= 1 /\ Len(a.interest) <= InterestMaxLength
    /\ a.tone \in Tones
    /\ Len(a.language) >= 1 /\ Len(a.language) <= LanguageMaxLength

\* faulty variant: the upper bounds of the request are not enforced
ValidCampaignRequestUnbounded(b) ==
    /\ Len(b.accounts) >= 1
    /\ \A k \in 1..Len(b.accounts) : ValidAccount(b.accounts[k])
    /\ b.number_of_emails > 0

ValidCampaignRequest(b) ==
    /\ Len(b.accounts) >= 1 /\ Len(b.accounts) <= AccountsMaxItems
    /\ \A k \in 1..Len(b.accounts) : ValidAccount(b.accounts[k])
    /\ b.number_of_emails > 0 /\ b.number_of_emails <= NumberOfEmailsLe

-----------------------------------------------------------------------------
(* The request bodies the callers send *)

Ann == [name |-> <<"A", "n", "n">>, job_title |-> <<"C", "T", "O">>, group |-> "A"]

Bob == [name |-> <<"B", "o", "b">>, job_title |-> <<"C", "F", "O">>, group |-> "A"]

Acme ==
    [account_name |-> <<"A", "c", "m", "e">>,
     industry |-> <<"T", "e", "c", "h", "n", "o", "l", "o", "g", "y">>,
     pain_points |-> <<"slow onboarding">>,
     contacts |-> <<Ann>>,
     campaign_objective |-> "awareness",
     interest |-> <<"a", "i">>,
     tone |-> "formal",
     language |-> <<"e", "n">>]

Shop ==
    [Acme EXCEPT !.account_name = <<"S", "h", "o", "p">>,
                 !.industry = <<"R", "e", "t", "a", "i", "l">>,
                 !.pain_points = <<"p1", "p2", "p3", "p4", "p5">>,
                 !.campaign_objective = "upselling",
                 !.tone = "neutral"]

Clinic ==
    [Acme EXCEPT !.account_name = <<"C", "l", "i", "n", "i", "c">>,
                 !.industry = <<"H", "e", "a", "l", "t", "h", "c", "a", "r", "e">>,
                 !.pain_points = <<"p1", "p2">>,
                 !.campaign_objective = "nurturing",
                 !.tone = "casual"]

Soft ==
    [Acme EXCEPT !.account_name = <<"S", "o", "f", "t">>,
                 !.industry = <<"S", "O", "F", "T", "W", "A", "R", "E">>,
                 !.contacts = <<Bob, Ann>>,
                 !.tone = "enthusiastic"]

Store ==
    [Acme EXCEPT !.account_name = <<"S", "t", "o", "r", "e">>,
                 !.industry = <<"e", "-", "C", "o", "m", "m", "e", "r", "c", "e">>,
                 !.contacts = <<Bob>>]

\* the accounts the generated requests take in turn
ValidAccounts == <<Acme, Shop, Clinic>>

SixPainPoints == [Acme EXCEPT !.pain_points = <<"p1", "p2", "p3", "p4", "p5", "p6">>]

NoPainPoints == [Acme EXCEPT !.pain_points = <<>>]

NoContacts == [Acme EXCEPT !.contacts = <<>>]

AngryTone == [Acme EXCEPT !.tone = "angry"]

BadAccounts == {SixPainPoints, NoPainPoints, NoContacts, AngryTone}

\* n accounts, taken in turn from ValidAccounts, beginning with the start-th
RotatedAccounts(start, n) ==
    [k \in 1..n |-> ValidAccounts[((start + k - 2) % Len(ValidAccounts)) + 1]]

SmallBodies ==
    {[accounts |-> RotatedAccounts(s, n), number_of_emails |-> m] :
        s \in 1..Len(ValidAccounts), n \in 1..MaxAccounts, m \in 1..MaxStages}

BadAccountBodies ==
    UNION {{[accounts |-> [RotatedAccounts(1, n) EXCEPT ![p] = bad],
             number_of_emails |-> 1] : p \in 1..n, bad \in BadAccounts} :
           n \in 1..MaxAccounts}

\* requests of one account with the other industries of the send-time rule
SingleAccountBodies ==
    {[accounts |-> <<a>>, number_of_emails |-> 1] : a \in {Soft, Store}}

BoundaryBodies ==
    {[accounts |-> <<>>, number_of_emails |-> 1],
     [accounts |-> RotatedAccounts(1, AccountsMaxItems + 1), number_of_emails |-> 1],
     [accounts |-> <<Acme>>, number_of_emails |-> 0],
     [accounts |-> <<Acme>>, number_of_emails |-> NumberOfEmailsLe],
     [accounts |-> <<Acme>>, number_of_emails |-> NumberOfEmailsLe + 1]}

Bodies == SmallBodies \cup SingleAccountBodies \cup BadAccountBodies \cup BoundaryBodies

\* the bodies posted to the export route: those whose first account is not one
\* of the later accounts of the rotation
ExportBodies ==
    {b \in Bodies : b.accounts = <<>> \/ b.accounts[1] \notin {Shop, Clinic}}

Requests ==
    (Bodies \X {"/generate-campaigns/"}) \cup (ExportBodies \X {"/export-campaigns-csv/"})

-----------------------------------------------------------------------------
(* What a client.generate call can give back.  kind "error": the client     *)
(* raised.  Otherwise json says what json.loads makes of the text: "invalid"*)
(* (JSONDecodeError), "list" (valid JSON that is no object) or "dict", and  *)
(* keys, subject, body, call_to_action describe the object.                 *)

Keys == {"subject", "body", "call_to_action"}

ThreeSubjects ==
    [kind |-> "text", json |-> "dict", keys |-> Keys,
     subject |-> <<"s1", "s2", "s3">>,
     body |-> <<"Hi", "\n", "there">>,
     call_to_action |-> <<"Book a demo", "\n">>]

OneSubject == [ThreeSubjects EXCEPT !.subject = <<"only">>, !.body = <<"Hello">>]

NotJson == [ThreeSubjects EXCEPT !.json = "invalid"]

JsonList == [ThreeSubjects EXCEPT !.json = "list"]

SubjectAbsent == [ThreeSubjects EXCEPT !.keys = {"body", "call_to_action"}]

SubjectEmpty == [ThreeSubjects EXCEPT !.subject = <<>>]

BodyAbsent == [ThreeSubjects EXCEPT !.keys = {"subject", "call_to_action"}]

CallToActionAbsent == [ThreeSubjects EXCEPT !.keys = {"subject", "body"}]

ClientError == [ThreeSubjects EXCEPT !.kind = "error"]

Completions ==
    {ThreeSubjects, OneSubject, NotJson, JsonList, SubjectAbsent, SubjectEmpty,
     BodyAbsent, CallToActionAbsent, ClientError}

-----------------------------------------------------------------------------
(* Exceptions and str(e) *)

NoException == [type |-> "none", status_code |-> 0, detail |-> <<>>]

HTTPException(status, detail) ==
    [type |-> "HTTPException", status_code |-> status, detail |-> detail]

PyError(type, message) == [type |-> type, status_code |-> 0, detail |-> message]

\* str(e): Starlette's HTTPException gives "{status_code}: {detail}", the
\* built-in exceptions give their message
StrOfException(e) ==
    IF e.type = "HTTPException"
    THEN <<StrOfStatus(e.status_code), ": ">> \o e.detail
    ELSE e.detail

InvalidToneError ==
    HTTPException(400, <<"Invalid tone provided. Must be one of: formal, casual, enthusiastic, neutral.">>)

InvalidJsonError == HTTPException(500, <<"Invalid JSON response from Cohere">>)

KeyNotFoundError == HTTPException(500, <<"COHERE_API key not found">>)

-----------------------------------------------------------------------------
(* lifespan and get_cohere_client *)

NoValue == "<unset>"

\* not os.getenv("COHERE_API_KEY"): unset, or set to the empty string
KeyMissing(value) == value = NoValue \/ value = ""

\* faulty variant: start-up does not look at the credential
LifespanNeverRaises == FALSE

LifespanRaises == KeyMissing(env_key)

GetCohereClientRaises == KeyMissing(env_key)

-----------------------------------------------------------------------------
(* generate_email_content *)

ToneCheckRaises(tone) == tone \notin Tones

\* the values the f-string of the prompt interpolates
Prompt(account, email_number, total_emails, tone) ==
    [company |-> account.account_name,
     industry |-> account.industry,
     pain_points |-> Join(", ", account.pain_points),
     stage |-> <<"Email ", StrOfInt(email_number), " of ", StrOfInt(total_emails)>>,
     objective |-> account.campaign_objective,
     job_title |-> account.contacts[1].job_title,
     interest |-> account.interest,
     tone |-> tone,
     language |-> account.language]

Morning == "8 AM - 10 AM"

Afternoon == "1 PM - 3 PM"

Evening == "6 PM - 8 PM"

MorningIndustries ==
    {<<"t", "e", "c", "h", "n", "o", "l", "o", "g", "y">>,
     <<"s", "o", "f", "t", "w", "a", "r", "e">>}

AfternoonIndustries ==
    {<<"r", "e", "t", "a", "i", "l">>,
     <<"e", "-", "c", "o", "m", "m", "e", "r", "c", "e">>}

\* faulty variant: the industry is compared as written
RecommendedSendTimeCaseSensitive(industry) ==
    IF industry \in MorningIndustries THEN Morning
    ELSE IF industry \in AfternoonIndustries THEN Afternoon
    ELSE Evening

RecommendedSendTime(industry) ==
    IF Lower(industry) \in MorningIndustries THEN Morning
    ELSE IF Lower(industry) \in AfternoonIndustries THEN Afternoon
    ELSE Evening

Salutation(account) == <<"Best regards,The ">> \o account.account_name \o <<" Team">>

\* faulty variant: a missing or empty candidate list is replaced by a default
SubVariantsDefaulted(c) ==
    IF "subject" \in c.keys /\ c.subject # <<>> THEN c.subject ELSE <<"(no subject)">>

\* email_data.get("subject", [])
SubVariants(c) == IF "subject" \in c.keys THEN c.subject ELSE <<>>

Raised(e) == [ok |-> FALSE, exc |-> e, variants |-> <<>>]

Returned(variants) == [ok |-> TRUE, exc |-> NoException, variants |-> variants]

\* the EmailVariant(...) expression: its arguments are evaluated left to right
EmailVariant(account, c) ==
    [subject |-> SubVariants(c)[1],
     body |-> StripNewlines(c.body),
     call_to_action |-> StripNewlines(c.call_to_action) \o StripNewlines(Salutation(account)),
     sub_variants |-> SubVariants(c),
     suggested_send_time |-> RecommendedSendTime(account.industry)]

\* generate_email_content from the client.generate call on: what it returns
\* or raises when the call gives back c
ParseCompletion(account, c) ==
    IF c.kind = "error"
        THEN Raised(PyError("CohereError", <<"service error">>))
    ELSE IF c.json = "invalid"
        THEN Raised(InvalidJsonError)
    ELSE IF c.json # "dict"
        THEN Raised(PyError("AttributeError", <<"'list' object has no attribute 'get'">>))
    ELSE IF SubVariants(c) = <<>>
        THEN Raised(PyError("IndexError", <<"list index out of range">>))
    ELSE IF "body" \notin c.keys
        THEN Raised(PyError("KeyError", <<"'body'">>))
    ELSE IF "call_to_action" \notin c.keys
        THEN Raised(PyError("KeyError", <<"'call_to_action'">>))
    ELSE Returned(<<EmailVariant(account, c)>>)

-----------------------------------------------------------------------------
(* generate_campaign, generate_campaigns and the responses *)

\* account.tone if account.tone else "neutral"
ResolveTone(account) == IF account.tone # "" THEN account.tone ELSE "neutral"

Email(variants) == [variants |-> variants]

\* faulty variant: the new email is put in front
PrependEmail(es, variants) == <<Email(variants)>> \o es

\* emails.append(Email(variants=email_variants))
AppendEmail(es, variants) == Append(es, Email(variants))

Campaign(account, es) == [account_name |-> account.account_name, emails |-> es]

\* faulty variant: an HTTPException raised inside is passed on as it is
RequestBoundaryReraises(e) ==
    IF e.type = "HTTPException"
    THEN e
    ELSE HTTPException(500, <<"Unexpected error: ">> \o StrOfException(e))

\* except Exception as e: raise HTTPException(500, f"Unexpected error: {str(e)}")
RequestBoundary(e) == HTTPException(500, <<"Unexpected error: ">> \o StrOfException(e))

NoBody == [accounts |-> <<>>, number_of_emails |-> 0]

NoResponse ==
    [status |-> 0, kind |-> "none", detail |-> <<>>, campaigns |-> <<>>, rows |-> <<>>]

\* an HTTPException leaving the handler becomes the response
ErrorResponse(e) ==
    [NoResponse EXCEPT !.status = e.status_code, !.kind = "http_error", !.detail = e.detail]

\* the framework's answer to a body the schema classes reject
ValidationErrorResponse ==
    [NoResponse EXCEPT !.status = 422, !.kind = "validation_error",
                       !.detail = <<"validation error">>]

JsonResponse(cs) == [NoResponse EXCEPT !.status = 200, !.kind = "json", !.campaigns = cs]

CsvResponse(rows) == [NoResponse EXCEPT !.status = 200, !.kind = "csv", !.rows = rows]

-----------------------------------------------------------------------------
(* export_campaigns_csv *)

\* a row is a sequence of cells, a cell is a text
CsvHeader ==
    <<<<"Account Name">>, <<"Email Number">>, <<"Variant">>, <<"Subject">>,
      <<"Sub-Variants">>, <<"Body">>, <<"Call to Action">>, <<"Recommended Send Time">>>>

\* the (campaign, email, variant) positions in the order of the three nested loops
VariantPositions(cs, c, e) ==
    [v \in 1..Len(cs[c].emails[e].variants) |-> <<c, e, v>>]

EmailPositions(cs, c) ==
    Concat([e \in 1..Len(cs[c].emails) |-> VariantPositions(cs, c, e)])

Positions(cs) == Concat([c \in 1..Len(cs) |-> EmailPositions(cs, c)])

\* faulty variant: the indices are written as enumerate counts them from 0
CsvRowZeroBased(cs, pos) ==
    LET campaign == cs[pos[1]]
        variant == campaign.emails[pos[2]].variants[pos[3]]
    IN  <<campaign.account_name,
          <<"Email ", StrOfInt(pos[2] - 1)>>,
          <<"Variant ", StrOfInt(pos[3] - 1)>>,
          <<variant.subject>>,
          Join("; ", variant.sub_variants),
          variant.body,
          variant.call_to_action,
          <<variant.suggested_send_time>>>>

CsvRow(cs, pos) ==
    LET campaign == cs[pos[1]]
        variant == campaign.emails[pos[2]].variants[pos[3]]
    IN  <<campaign.account_name,
          <<"Email ", StrOfInt(pos[2])>>,
          <<"Variant ", StrOfInt(pos[3])>>,
          <<variant.subject>>,
          Join("; ", variant.sub_variants),
          variant.body,
          variant.call_to_action,
          <<variant.suggested_send_time>>>>

-----------------------------------------------------------------------------
(* The process and the request handlers *)

Init ==
    /\ env_key \in {NoValue, "", "sk-live"}
    /\ proc = "starting"
    /\ endpoint = "none"
    /\ body = NoBody
    /\ request = NoBody
    /\ pc = "idle"
    /\ ai = 0
    /\ si = 0
    /\ emails = <<>>
    /\ campaigns = <<>>
    /\ calls = <<>>
    /\ returns = <<>>
    /\ out = <<>>
    /\ resp = NoResponse

\* lifespan yields: the application starts serving
StartupOk ==
    /\ proc = "starting"
    /\ ~LifespanRaises
    /\ proc' = "serving"
    /\ UNCHANGED <<env_key, endpoint, body, request, pc, ai, si, emails, campaigns,
                   calls, returns, out, resp>>

\* lifespan raises ValueError: the application never starts
StartupFails ==
    /\ proc = "starting"
    /\ LifespanRaises
    /\ proc' = "failed"
    /\ UNCHANGED <<env_key, endpoint, body, request, pc, ai, si, emails, campaigns,
                   calls, returns, out, resp>>

\* a caller posts a body to one of the two routes
ReceiveRequest ==
    /\ proc = "serving"
    /\ pc = "idle"
    /\ \E r \in Requests :
          /\ body' = r[1]
          /\ endpoint' = r[2]
    /\ pc' = "received"
    /\ UNCHANGED <<env_key, proc, request, ai, si, emails, campaigns, calls,
                   returns, out, resp>>

\* the handler is left with the response r: its locals are gone
Leave(r) ==
    /\ resp' = r
    /\ pc' = "responded"
    /\ request' = NoBody
    /\ ai' = 0
    /\ si' = 0
    /\ emails' = <<>>

\* faulty variant: the failure is swallowed and what was built so far is returned
FailReturnsPartial(e) ==
    /\ Leave(JsonResponse(campaigns))
    /\ campaigns' = campaigns

\* faulty variant: the failing stage is tried again
FailRetries(e) ==
    /\ pc' = "stage"
    /\ UNCHANGED <<resp, request, ai, si, emails, campaigns>>

\* the handler is left by the exception e raised inside generate_campaigns
Fail(e) ==
    /\ Leave(ErrorResponse(RequestBoundary(e)))
    /\ campaigns' = <<>>

\* the dependency raises, or the body does not make a CampaignRequest
RejectRequest ==
    /\ pc = "received"
    /\ GetCohereClientRaises \/ ~ValidCampaignRequest(body)
    /\ Leave(IF GetCohereClientRaises
             THEN ErrorResponse(KeyNotFoundError)
             ELSE ValidationErrorResponse)
    /\ UNCHANGED <<env_key, proc, endpoint, body, campaigns, calls, returns, out>>

\* the body makes a CampaignRequest and the handler is entered
AcceptRequest ==
    /\ pc = "received"
    /\ ~GetCohereClientRaises
    /\ ValidCampaignRequest(body)
    /\ request' = body
    /\ ai' = 1
    /\ pc' = IF 1 <= Len(body.accounts) THEN "campaign" ELSE "return"
    /\ UNCHANGED <<env_key, proc, endpoint, body, si, emails, campaigns, calls,
                   returns, out, resp>>

\* generate_campaign is entered for account ai: every contact gets a random group
BeginCampaign ==
    /\ pc = "campaign"
    /\ \E g \in [1..Len(request.accounts[ai].contacts) -> Groups] :
          request' = [request EXCEPT !.accounts[ai].contacts =
                         [k \in 1..Len(@) |-> [@[k] EXCEPT !.group = g[k]]]]
    /\ emails' = <<>>
    /\ si' = 1
    /\ pc' = "stage"
    /\ UNCHANGED <<env_key, proc, endpoint, body, ai, campaigns, calls, returns,
                   out, resp>>

\* generate_email_content is entered for stage si and calls client.generate
IssueCall ==
    /\ pc = "stage"
    /\ si <= request.number_of_emails
    /\ LET account == request.accounts[ai]
           tone == ResolveTone(account)
       IN  IF ToneCheckRaises(tone)
           THEN /\ Fail(InvalidToneError)
                /\ UNCHANGED calls
           ELSE /\ calls' = Append(calls,
                       [account |-> ai, email_number |-> si,
                        prompt |-> Prompt(account, si, request.number_of_emails, tone)])
                /\ pc' = "waiting"
                /\ UNCHANGED <<request, ai, si, emails, campaigns, resp>>
    /\ UNCHANGED <<env_key, proc, endpoint, body, returns, out>>

\* client.generate gives back c, from which an EmailVariant is made
CallReturns ==
    /\ pc = "waiting"
    /\ \E c \in Completions :
          LET result == ParseCompletion(request.accounts[ai], c)
          IN  /\ result.ok
              /\ returns' = Append(returns,
                      [account |-> ai, email_number |-> si, completion |-> c])
              /\ emails' = AppendEmail(emails, result.variants)
    /\ si' = si + 1
    /\ pc' = "stage"
    /\ UNCHANGED <<env_key, proc, endpoint, body, request, ai, campaigns, calls,
                   out, resp>>

\* client.generate raises, or gives back c from which no EmailVariant is made
CallFails ==
    /\ pc = "waiting"
    /\ \E c \in Completions :
          LET result == ParseCompletion(request.accounts[ai], c)
          IN  /\ ~result.ok
              /\ returns' = Append(returns,
                      [account |-> ai, email_number |-> si, completion |-> c])
              /\ Fail(result.exc)
    /\ UNCHANGED <<env_key, proc, endpoint, body, calls, out>>

\* the loop over the stages is over: generate_campaign returns the Campaign
FinishCampaign ==
    /\ pc = "stage"
    /\ si > request.number_of_emails
    /\ campaigns' = Append(campaigns, Campaign(request.accounts[ai], emails))
    /\ ai' = ai + 1
    /\ pc' = IF ai + 1 <= Len(request.accounts) THEN "campaign" ELSE "return"
    /\ UNCHANGED <<env_key, proc, endpoint, body, request, si, emails, calls,
                   returns, out, resp>>

\* /generate-campaigns/ answers with the CampaignResponse
RespondJson ==
    /\ pc = "return"
    /\ endpoint = "/generate-campaigns/"
    /\ Leave(JsonResponse(campaigns))
    /\ UNCHANGED <<env_key, proc, endpoint, body, campaigns, calls, returns, out>>

\* export_campaigns_csv has the CampaignResponse and writes the header row
WriteHeader ==
    /\ pc = "return"
    /\ endpoint = "/export-campaigns-csv/"
    /\ out' = <<CsvHeader>>
    /\ pc' = "csv"
    /\ UNCHANGED <<env_key, proc, endpoint, body, request, ai, si, emails,
                   campaigns, calls, returns, resp>>

\* one turn of the innermost loop: the row of the next variant
WriteRow ==
    /\ pc = "csv"
    /\ Len(out) <= Len(Positions(campaigns))
    /\ out' = Append(out, CsvRow(campaigns, Positions(campaigns)[Len(out)]))
    /\ UNCHANGED <<env_key, proc, endpoint, body, request, pc, ai, si, emails,
                   campaigns, calls, returns, resp>>

\* the loops are over: the file is sent
RespondCsv ==
    /\ pc = "csv"
    /\ Len(out) > Len(Positions(campaigns))
    /\ Leave(CsvResponse(out))
    /\ UNCHANGED <<env_key, proc, endpoint, body, campaigns, calls, returns, out>>

\* the response is sent and nothing of the request is kept
SendResponse ==
    /\ pc = "responded"
    /\ pc' = "idle"
    /\ endpoint' = "none"
    /\ body' = NoBody
    /\ campaigns' = <<>>
    /\ calls' = <<>>
    /\ returns' = <<>>
    /\ out' = <<>>
    /\ resp' = NoResponse
    /\ UNCHANGED <<env_key, proc, request, ai, si, emails>>

Next ==
    \/ StartupOk
    \/ StartupFails
    \/ ReceiveRequest
    \/ RejectRequest
    \/ AcceptRequest
    \/ BeginCampaign
    \/ IssueCall
    \/ CallReturns
    \/ CallFails
    \/ FinishCampaign
    \/ RespondJson
    \/ WriteHeader
    \/ WriteRow
    \/ RespondCsv
    \/ SendResponse

Spec == Init /\ [][Next]_vars

-----------------------------------------------------------------------------
(* The CSV formatter on its own: export_campaigns_csv from the point where  *)
(* generate_campaigns has returned, for every CampaignResponse of C         *)
(* campaigns with E emails each and V variants each.                        *)

\* the variant at position (c, e, v) carries its position in its body
SampleVariant(c, e, v) ==
    [subject |-> "s1",
     body |-> <<StrOfInt(c), "/", StrOfInt(e), "/", StrOfInt(v)>>,
     call_to_action |-> <<"Book a demo">>,
     sub_variants |-> <<"s1", "s2", "s3">>,
     suggested_send_time |-> Evening]

UniformResponse(C, E, V) ==
    [c \in 1..C |->
        [account_name |-> <<"N", StrOfInt(c)>>,
         emails |-> [e \in 1..E |-> Email([v \in 1..V |-> SampleVariant(c, e, v)])]]]

InitCsv ==
    /\ env_key = "sk-live"
    /\ proc = "serving"
    /\ endpoint = "/export-campaigns-csv/"
    /\ body = NoBody
    /\ request = NoBody
    /\ pc = "return"
    /\ ai = 0
    /\ si = 0
    /\ emails = <<>>
    /\ \E C \in 1..MaxCampaigns, E \in 1..MaxEmails, V \in 1..MaxVariants :
          campaigns = UniformResponse(C, E, V)
    /\ calls = <<>>
    /\ returns = <<>>
    /\ out = <<>>
    /\ resp = NoResponse

NextCsv ==
    \/ WriteHeader
    \/ WriteRow
    \/ RespondCsv

CsvSpec == InitCsv /\ [][NextCsv]_vars

-----------------------------------------------------------------------------
(* Properties *)

\* a completion from which an email can be made: parseable JSON, an object,
\* with the three keys and at least one subject candidate
WellFormed(c) ==
    /\ c.kind = "text"
    /\ c.json = "dict"
    /\ {"subject", "body", "call_to_action"} \subseteq c.keys
    /\ c.subject # <<>>

\* generate_campaigns has returned its CampaignResponse
HasReturned ==
    \/ pc \in {"return", "csv"}
    \/ pc = "responded" /\ resp.kind \in {"json", "csv"}

\* the request has ended in an error raised while the campaigns were generated
GenerationFailed == pc = "responded" /\ resp.kind = "http_error"

\* the k-th email of campaign a is the one made from what the call for account a,
\* stage k gave back, and that call was the one whose prompt named stage k
MadeByCallFor(a, k) ==
    \E j \in 1..Len(returns) :
        /\ returns[j].account = a
        /\ returns[j].email_number = k
        /\ calls[j].account = a
        /\ calls[j].prompt.company = body.accounts[a].account_name
        /\ calls[j].prompt.stage =
               <<"Email ", StrOfInt(k), " of ", StrOfInt(body.number_of_emails)>>
        /\ campaigns[a].emails[k].variants =
               ParseCompletion(body.accounts[a], returns[j].completion).variants
        /\ campaigns[a].emails[k].variants # <<>>

\* C1: a valid request whose calls all give back well-formed completions does not
\* fail, and what generate_campaigns returns has one campaign per account of the
\* request, in the order of the request and with the account's name, each with
\* number_of_emails emails, the k-th made by the call for stage k.
C1_OneCampaignPerAccount ==
    /\ GenerationFailed =>
          \E j \in 1..Len(returns) : ~WellFormed(returns[j].completion)
    /\ HasReturned =>
          /\ Len(campaigns) = Len(body.accounts)
          /\ \A a \in 1..Len(campaigns) :
                /\ campaigns[a].account_name = body.accounts[a].account_name
                /\ Len(campaigns[a].emails) = body.number_of_emails
                /\ \A k \in 1..Len(campaigns[a].emails) : MadeByCallFor(a, k)
    /\ (pc = "responded" /\ resp.kind = "json") => resp.campaigns = campaigns

C1_Witness ==
    /\ pc = "responded"
    /\ resp.kind = "json"
    /\ Len(resp.campaigns) = 2
    /\ body.number_of_emails = 2
    /\ resp.campaigns[1].emails[1] # resp.campaigns[1].emails[2]

\* a body that breaks a bound of the data model, as the specification lists them
ViolatesDataModel(b) ==
    \/ Len(b.accounts) = 0
    \/ Len(b.accounts) >= 11
    \/ b.number_of_emails <= 0
    \/ b.number_of_emails >= 11
    \/ \E k \in 1..Len(b.accounts) :
          \/ Len(b.accounts[k].pain_points) = 0
          \/ Len(b.accounts[k].pain_points) >= 6
          \/ Len(b.accounts[k].contacts) = 0
          \/ b.accounts[k].tone \notin {"formal", "casual", "enthusiastic", "neutral"}

\* C2: a request that breaks a bound of the data model is answered with a
\* validation error, and all the while no call to the generative-text service
\* has been made and no CampaignRequest exists whose contacts could have been
\* given a group; every request that ends in a validation error made no call.
C2_RejectedBeforeAnyCall ==
    /\ (pc # "idle" /\ ViolatesDataModel(body)) =>
          /\ pc \in {"received", "responded"}
          /\ calls = <<>>
          /\ returns = <<>>
          /\ request = NoBody
          /\ pc = "responded" => (resp.kind = "validation_error" /\ resp.status = 422)
    /\ resp.kind = "validation_error" =>
          /\ calls = <<>>
          /\ request = NoBody
          /\ campaigns = <<>>

C2_Witness ==
    /\ pc = "responded"
    /\ resp.kind = "validation_error"
    /\ Len(body.accounts) = 11
    /\ calls = <<>>

\* the list of subject candidates the parsed completion c yields
Candidates(c) == IF "subject" \in c.keys THEN c.subject ELSE <<>>

\* json.loads gave an object, so that candidates were looked for
Parsed(c) == c.kind = "text" /\ c.json = "dict"

\* an email made from the return r is in a list of the handler
HasEmail(r) ==
    \/ /\ r.account <= Len(campaigns)
       /\ r.email_number <= Len(campaigns[r.account].emails)
    \/ /\ pc \in {"stage", "waiting"}
       /\ r.account = ai
       /\ r.email_number <= Len(emails)

EmailOf(r) ==
    IF r.account <= Len(campaigns)
    THEN campaigns[r.account].emails[r.email_number]
    ELSE emails[r.email_number]

AllVariants ==
    UNION {Range(emails[k].variants) : k \in 1..Len(emails)}
    \cup UNION {UNION {Range(campaigns[a].emails[k].variants) :
                          k \in 1..Len(campaigns[a].emails)} : a \in 1..Len(campaigns)}

\* C3: when the parsed completion yields a non-empty list of subject candidates
\* and an EmailVariant is made, its subject is the first candidate and its
\* sub_variants the whole list; when it yields no candidate (key absent or empty
\* list) the call fails, the request ends in an error and no EmailVariant is
\* made; no variant ever has a subject that is not its first sub_variant.
C3_SubjectIsFirstCandidate ==
    /\ \A j \in 1..Len(returns) :
          LET r == returns[j]
              c == r.completion
          IN  Parsed(c) =>
                /\ (Candidates(c) # <<>> /\ HasEmail(r)) =>
                      /\ EmailOf(r).variants # <<>>
                      /\ \A k \in 1..Len(EmailOf(r).variants) :
                            /\ EmailOf(r).variants[k].subject = Candidates(c)[1]
                            /\ EmailOf(r).variants[k].sub_variants = Candidates(c)
                /\ Candidates(c) = <<>> =>
                      /\ ~HasEmail(r)
                      /\ j = Len(returns)
                      /\ GenerationFailed
                      /\ resp.status = 500
                      /\ resp.campaigns = <<>>
    /\ \A variant \in AllVariants :
          /\ variant.sub_variants # <<>>
          /\ variant.subject = variant.sub_variants[1]

C3_Witness ==
    /\ GenerationFailed
    /\ Len(returns) = 2
    /\ returns[1].completion.subject = <<"s1", "s2", "s3">>
    /\ Parsed(returns[2].completion)
    /\ Candidates(returns[2].completion) = <<>>

\* C4: when a call gives back something that is no parseable JSON or lacks the
\* subject/body/call_to_action shape, the request fails as a whole: the answer is
\* an error that carries no campaign and no row, nothing built so far is kept,
\* the failing call is the last call made, and its stage has produced no email.
C4_FailureAbortsRequest ==
    \A j \in 1..Len(returns) :
        ~WellFormed(returns[j].completion) =>
            /\ j = Len(returns)
            /\ Len(calls) = j
            /\ GenerationFailed
            /\ resp.campaigns = <<>>
            /\ resp.rows = <<>>
            /\ campaigns = <<>>
            /\ emails = <<>>
            /\ out = <<>>

C4_Witness ==
    /\ GenerationFailed
    /\ Len(body.accounts) = 2
    /\ body.number_of_emails = 2
    /\ Len(returns) = 3
    /\ returns[3].completion.json = "invalid"
    /\ Len(calls) = 3

\* the pair (account index, stage) of the j-th call of a request with m stages
ExpectedAccount(j, m) == ((j - 1) \div m) + 1

ExpectedStage(j, m) == ((j - 1) % m) + 1

\* C5: within one request the calls are made one after the other in the order
\* account 1 stage 1..N, account 2 stage 1..N, ..., so each (account, stage)
\* pair is called at most once and never again; a call is made only when all
\* calls before it have returned well-formed completions; a request that
\* succeeds has made exactly len(accounts) * number_of_emails calls.
C5_CallsOnceInOrder ==
    pc # "idle" =>
        LET n == Len(body.accounts)
            m == body.number_of_emails
        IN  /\ Len(calls) <= n * m
            /\ \A j \in 1..Len(calls) :
                  /\ calls[j].account = ExpectedAccount(j, m)
                  /\ calls[j].email_number = ExpectedStage(j, m)
            /\ \A i, j \in 1..Len(calls) :
                  (calls[i].account = calls[j].account
                     /\ calls[i].email_number = calls[j].email_number) => i = j
            /\ Len(returns) <= Len(calls)
            /\ Len(calls) <= Len(returns) + 1
            /\ (Len(calls) = Len(returns) + 1) <=> (pc = "waiting")
            /\ \A j \in 1..Len(calls) - 1 :
                  /\ returns[j].account = calls[j].account
                  /\ returns[j].email_number = calls[j].email_number
                  /\ WellFormed(returns[j].completion)
            /\ HasReturned => Len(calls) = n * m

C5_Witness ==
    /\ pc = "responded"
    /\ resp.kind = "json"
    /\ Len(body.accounts) = 2
    /\ body.number_of_emails = 2
    /\ Len(calls) = 4
    /\ calls[3].account = 2
    /\ calls[3].email_number = 1

\* needle occurs in text as a run of neighbouring pieces
Contains(text, needle) ==
    \E i \in 0..(Len(text) - Len(needle)) :
        \A k \in 1..Len(needle) : text[i + k] = needle[k]

\* C6: the detail of every failure reported for a call that failed at a known
\* (account, stage) names the account and the 1-based index of the stage.
C6_FailureNamesStage ==
    (GenerationFailed /\ returns # <<>>) =>
        /\ Contains(resp.detail, body.accounts[Last(returns).account].account_name)
        /\ StrOfInt(Last(returns).email_number) \in Range(resp.detail)

\* C7: with no credential configured (unset or empty) the process never serves:
\* start-up fails, no request is ever received or answered and no call is made;
\* the process fails to start only for want of the credential, so with the
\* credential present start-up leads to serving.
C7_NoCredentialNeverServes ==
    /\ (env_key = "<unset>" \/ env_key = "") =>
          /\ proc \in {"starting", "failed"}
          /\ pc = "idle"
          /\ endpoint = "none"
          /\ resp.kind = "none"
          /\ calls = <<>>
    /\ proc = "failed" => (env_key = "<unset>" \/ env_key = "")
    /\ (proc = "starting" /\ env_key = "sk-live") => ENABLED StartupOk
    /\ pc # "idle" => proc = "serving"

C7_Witness == proc = "failed" /\ env_key = "<unset>" /\ ~ENABLED Next

\* the shape (C, E, V) of a response all of whose campaigns have E emails and
\* all of whose emails have V variants
CountC == Len(campaigns)

CountE == Len(campaigns[1].emails)

CountV == Len(campaigns[1].emails[1].variants)

\* the export is done: the header and all rows are written
ExportDone == pc = "responded" /\ resp.kind = "csv"

\* the d-th data row is the row of campaign c, stage i, variant j, in the order
\* campaign, then stage, then variant
RowIsOfEntry(d) ==
    LET c == ((d - 1) \div (CountE * CountV)) + 1
        i == (((d - 1) \div CountV) % CountE) + 1
        j == ((d - 1) % CountV) + 1
        row == resp.rows[d + 1]
        variant == campaigns[c].emails[i].variants[j]
    IN  /\ row[1] = campaigns[c].account_name
        /\ row[2] = <<"Email ", StrOfInt(i)>>
        /\ row[3] = <<"Variant ", StrOfInt(j)>>
        /\ row[4] = <<variant.subject>>
        /\ row[6] = variant.body
        /\ row[7] = variant.call_to_action

\* C8 as stated: after the header row there are exactly 1 + C*E*V data rows.
C8_OnePlusCEVDataRows ==
    ExportDone => Len(resp.rows) - 1 = 1 + CountC * CountE * CountV

\* C8, amended: the formatter writes the header row and then exactly C*E*V data
\* rows (1 + C*E*V rows with the header); the rows follow campaign order, then
\* stage order, then variant order, and each row's Email Number and Variant
\* fields are "Email {i}" and "Variant {j}" with i, j the 1-based stage and
\* variant indices of the entry the row was made from.
C8_HeaderThenCEVDataRows ==
    /\ ExportDone =>
          /\ resp.rows = out
          /\ resp.rows[1] = CsvHeader
          /\ Len(resp.rows) = 1 + CountC * CountE * CountV
          /\ \A d \in 1..(CountC * CountE * CountV) : RowIsOfEntry(d)
    /\ pc = "csv" =>
          /\ out[1] = CsvHeader
          /\ Len(out) <= 1 + CountC * CountE * CountV

C8_Witness ==
    /\ ExportDone
    /\ CountC = 2
    /\ CountE = 3
    /\ CountV = 2
    /\ Len(resp.rows) = 13
    /\ resp.rows[13][2] = <<"Email ", "3">>
    /\ resp.rows[13][3] = <<"Variant ", "2">>

\* text and the lower-case word are the same up to the case of the letters
SameIgnoringCase(text, word) ==
    /\ Len(text) = Len(word)
    /\ \A k \in 1..Len(text) :
          \/ text[k] = word[k]
          \/ \E n \in 1..26 : UpperCase[n] = text[k] /\ LowerCase[n] = word[k]

\* the send-time rule of the specification
RuleLabel(industry) ==
    IF \/ SameIgnoringCase(industry, <<"t", "e", "c", "h", "n", "o", "l", "o", "g", "y">>)
       \/ SameIgnoringCase(industry, <<"s", "o", "f", "t", "w", "a", "r", "e">>)
    THEN "8 AM - 10 AM"
    ELSE IF \/ SameIgnoringCase(industry, <<"r", "e", "t", "a", "i", "l">>)
            \/ SameIgnoringCase(industry, <<"e", "-", "c", "o", "m", "m", "e", "r", "c", "e">>)
    THEN "1 PM - 3 PM"
    ELSE "6 PM - 8 PM"

\* C9: every EmailVariant made for an account carries the label the send-time
\* rule gives for the account's industry compared without regard to case, which
\* is one of the three labels; so all emails of one campaign carry one label.
C9_SendTimeByIndustry ==
    /\ \A a \in 1..Len(campaigns) :
          \A k \in 1..Len(campaigns[a].emails) :
              \A v \in 1..Len(campaigns[a].emails[k].variants) :
                  LET label == campaigns[a].emails[k].variants[v].suggested_send_time
                  IN  /\ label = RuleLabel(body.accounts[a].industry)
                      /\ label \in {"8 AM - 10 AM", "1 PM - 3 PM", "6 PM - 8 PM"}
                      /\ label = campaigns[a].emails[1].variants[1].suggested_send_time
    /\ pc \in {"stage", "waiting"} =>
          \A k \in 1..Len(emails) :
              \A v \in 1..Len(emails[k].variants) :
                  emails[k].variants[v].suggested_send_time =
                      RuleLabel(body.accounts[ai].industry)

C9_Witness ==
    /\ pc = "return"
    /\ Len(campaigns) = 1
    /\ body.accounts[1].industry = <<"S", "O", "F", "T", "W", "A", "R", "E">>
    /\ campaigns[1].emails[1].variants[1].suggested_send_time = "8 AM - 10 AM"

\* C10: every failure raised while the campaigns are generated reaches the
\* caller as an HTTP error of status 500 whose detail begins "Unexpected
\* error:" and goes on with str() of the failure; the status and detail of an
\* HTTP error raised inside (500 invalid JSON, 400 invalid tone) are not kept;
\* the process goes on serving and takes the next request.
C10_FailuresBecomeUnexpected500 ==
    /\ \A j \in 1..Len(returns) :
          ~WellFormed(returns[j].completion) =>
              /\ resp.kind = "http_error"
              /\ resp.status = 500
              /\ resp.detail[1] = "Unexpected error: "
              /\ proc = "serving"
              /\ ENABLED SendResponse
              /\ returns[j].completion.json = "invalid" =>
                    resp.detail = <<"Unexpected error: ", "500", ": ",
                                    "Invalid JSON response from Cohere">>
    /\ RequestBoundary(InvalidToneError).status_code = 500
    /\ RequestBoundary(InvalidToneError).detail[1] = "Unexpected error: "
    /\ RequestBoundary(InvalidToneError).detail[2] = "400"
    /\ (proc = "serving" /\ pc = "idle") => ENABLED ReceiveRequest

C10_Witness ==
    /\ GenerationFailed
    /\ Last(returns).completion.json = "invalid"
    /\ resp.status = 500
    /\ resp.detail[1] = "Unexpected error: "
    /\ proc = "serving"

====
